---- MODULE Spec2Model ----
(***************************************************************************)
(* Control loop of demos/human_pose_estimation_demo/python/                *)
(* human_pose_estimation_demo.py (function main): the submit / poll /      *)
(* await loop over an AsyncPipeline, the shutdown drain loop, and the      *)
(* half-hour rotation of record_list into .npy files.                      *)
(*                                                                         *)
(* The AsyncPipeline class (common/python/pipelines) is not part of the    *)
(* sources at hand; its operations are modelled from section 4.1 of the    *)
(* specification.                                                          *)
(*                                                                         *)
(* Time is a count of minutes; datetime.now() is an input of the steps     *)
(* that read it and may return any of ClockValues, so the wall clock may   *)
(* also step backward.  The two start-up reads (lines 249, 256) are one    *)
(* instant, and time.time() of line 301 is the instant of dt_now of line   *)
(* 273.  KeyboardInterrupt is one cancellation request that       *)
(* reaches the control thread while it is inside the try block (lines      *)
(* 266-337).  A frame is represented by its index in the source, and the   *)
(* metadata bag by that same index.  args.no_show is not a variable: with  *)
(* no_show set no key is ever read, which is the behaviour in which the    *)
(* key input is always "none".                                             *)
(***************************************************************************)
EXTENDS Integers, Sequences, FiniteSets, TLC

\* ---- bounds of the model ----
MaxFrames == 4
MaxPool == 2

\* wall-clock instants (minutes since day 0, 00:00) that datetime.now() may
\* return: 23:29, 23:30, 23:31, 23:59 of day 0 and 00:00 of day 1
ClockValues == {1409, 1410, 1411, 1439, 1440}

Keys == {"none", "quit"}

VARIABLES
    pc,                         \* position of the control thread in main()
    pool_size,                  \* args.num_infer_requests: number of slots
    record,                     \* args.record
    numFrames,                  \* length of the frame source
    framesRead,                 \* frames cap.read() has returned so far
    inflight,                   \* busy slots: sequence id |-> metadata
    completed_request_results,  \* pending result set: sequence id |-> metadata
    callback_exceptions,        \* ids whose completion callback raised
    event,                      \* completion event await_any waits on
    capacity_exceeded,          \* submit was called with no idle slot
    next_frame_id,
    next_frame_id_to_show,
    results,                    \* the result get_result returned (<<>> = None)
    record_list,
    output_dir,
    output_file_name,
    dt_pre,
    saved,                      \* the np.save calls so far, in order
    delivered,                  \* history: ids get_result has handed out
    interrupted,                \* history: KeyboardInterrupt was caught
    exhausted,                  \* history: cap.read() returned None (line 326)
    quit                        \* history: a quit key ended a loop

vars == <<pc, pool_size, record, numFrames, framesRead, inflight,
          completed_request_results, callback_exceptions, event,
          capacity_exceeded, next_frame_id, next_frame_id_to_show, results,
          record_list, output_dir, output_file_name, dt_pre, saved,
          delivered, interrupted, exhausted, quit>>

pipeVars == <<inflight, completed_request_results, callback_exceptions, event,
              capacity_exceeded>>
rotVars == <<record_list, output_dir, output_file_name, dt_pre, saved>>
cfgVars == <<pool_size, record, numFrames>>

\* ---- dictionaries ----
With(f, k, v) == [x \in (DOMAIN f) \cup {k} |-> IF x = k THEN v ELSE f[x]]
Without(f, k) == [x \in (DOMAIN f) \ {k} |-> f[x]]
EmptyDict == [x \in {} |-> 0]

\* ---- wall clock and bucket names ----
Minute(t) == t % 60
Hour(t) == (t \div 60) % 24
\* dt.strftime('%Y%m%d'): one name per calendar day
DateDir(t) == t \div 1440
\* dt.strftime('%H') + '00' or + '30', read as the number HHMM
WindowLabel(t) == IF Minute(t) <= 29 THEN Hour(t) * 100 ELSE Hour(t) * 100 + 30
\* the half-hour bucket an instant belongs to
BucketKey(t) == <<DateDir(t), WindowLabel(t)>>

\* ---- AsyncPipeline ----
IdleSlots == pool_size - Cardinality(DOMAIN inflight) - Cardinality(callback_exceptions)
is_ready == IdleSlots > 0
has_completed_request == DOMAIN completed_request_results # {}

\* get_result(id): the buffered result for id, removed from the set, or None
get_result(id) ==
    IF id \in DOMAIN completed_request_results
    THEN /\ results' = <<id, completed_request_results[id]>>
         /\ completed_request_results' = Without(completed_request_results, id)
    ELSE /\ results' = <<>>
         /\ UNCHANGED completed_request_results

\* submit_data(frame, id, meta): occupy an idle slot with the frame
submit_data(id, meta) ==
    IF IdleSlots = 0
    THEN /\ capacity_exceeded' = TRUE
         /\ UNCHANGED <<inflight, event>>
    ELSE /\ inflight' = With(inflight, id, meta)
         /\ event' = IF IdleSlots = 1 THEN FALSE ELSE event
         /\ UNCHANGED capacity_exceeded

\* completion callback of the slot that processes id: success
Complete(id) ==
    /\ id \in DOMAIN inflight
    /\ completed_request_results' = With(completed_request_results, id, inflight[id])
    /\ inflight' = Without(inflight, id)
    /\ event' = TRUE
    /\ UNCHANGED <<pc, cfgVars, framesRead, callback_exceptions, capacity_exceeded,
                   next_frame_id, next_frame_id_to_show, results, rotVars,
                   delivered, interrupted, exhausted, quit>>

\* completion callback of the slot that processes id: the inference failed
Fail(id) ==
    /\ id \in DOMAIN inflight
    /\ callback_exceptions' = callback_exceptions \cup {id}
    /\ inflight' = Without(inflight, id)
    /\ event' = TRUE
    /\ UNCHANGED <<pc, cfgVars, framesRead, completed_request_results,
                   capacity_exceeded, next_frame_id, next_frame_id_to_show,
                   results, rotVars, delivered, interrupted, exhausted, quit>>

\* ---- main(): state after line 263 ----
Init ==
    /\ pool_size \in 1..MaxPool
    /\ record \in BOOLEAN
    /\ numFrames \in 1..MaxFrames
    /\ framesRead = 1
    /\ inflight = With(EmptyDict, 0, 0)
    /\ completed_request_results = EmptyDict
    /\ callback_exceptions = {}
    /\ event = FALSE
    /\ capacity_exceeded = FALSE
    /\ next_frame_id = 1
    /\ next_frame_id_to_show = 0
    /\ results = <<>>
    /\ record_list = <<>>
    /\ \E t \in ClockValues :
          /\ output_dir = DateDir(t)
          /\ output_file_name = WindowLabel(t)
          /\ dt_pre = t
    /\ saved = <<>>
    /\ delivered = <<>>
    /\ interrupted = FALSE
    /\ exhausted = FALSE
    /\ quit = FALSE
    /\ pc = "loop"

\* variant of LoopTop that polls for any buffered result instead of the cursor's
LoopTopAnyOrder ==
    /\ pc = "loop"
    /\ IF callback_exceptions # {}
       THEN /\ pc' = "error"
            /\ UNCHANGED <<results, completed_request_results, delivered>>
       ELSE /\ \/ /\ ~has_completed_request
                  /\ get_result(next_frame_id_to_show)
               \/ \E id \in DOMAIN completed_request_results : get_result(id)
            /\ pc' = IF results' # <<>> THEN "accept" ELSE "admit"
            /\ delivered' = IF results' # <<>> THEN Append(delivered, results'[1])
                                                ELSE delivered
    /\ UNCHANGED <<cfgVars, framesRead, inflight, callback_exceptions, event,
                   capacity_exceeded, next_frame_id, next_frame_id_to_show,
                   rotVars, interrupted, exhausted, quit>>

\* lines 267-272: raise a captured failure, else poll the cursor's result
LoopTop ==
    /\ pc = "loop"
    /\ IF callback_exceptions # {}
       THEN /\ pc' = "error"
            /\ UNCHANGED <<results, completed_request_results, delivered>>
       ELSE /\ get_result(next_frame_id_to_show)
            /\ pc' = IF results' # <<>> THEN "accept" ELSE "admit"
            /\ delivered' = IF results' # <<>> THEN Append(delivered, results'[1])
                                                ELSE delivered
    /\ UNCHANGED <<cfgVars, framesRead, inflight, callback_exceptions, event,
                   capacity_exceeded, next_frame_id, next_frame_id_to_show,
                   rotVars, interrupted, exhausted, quit>>

\* the rotation test of line 274
RotationDue(pre, now) ==
    \/ (Minute(pre) = 59 /\ Minute(now) = 0)
    \/ (Minute(pre) = 29 /\ Minute(now) = 30)

\* lines 273-301: rotate the archive file if due, then record the result
Accept ==
    /\ pc = "accept"
    /\ \E dt_now \in ClockValues :
          /\ IF RotationDue(dt_pre, dt_now)
             THEN /\ saved' = Append(saved, [dir |-> output_dir,
                                              name |-> output_file_name,
                                              records |-> record_list,
                                              final |-> FALSE])
                  /\ output_dir' = DateDir(dt_now)
                  /\ output_file_name' = WindowLabel(dt_now)
                  /\ record_list' = IF record
                                    THEN <<[id |-> results[1], t |-> dt_now]>>
                                    ELSE <<>>
             ELSE /\ UNCHANGED <<saved, output_dir, output_file_name>>
                  /\ record_list' = IF record
                                    THEN Append(record_list,
                                                [id |-> results[1], t |-> dt_now])
                                    ELSE record_list
          /\ dt_pre' = dt_now
    /\ pc' = "show"
    /\ UNCHANGED <<cfgVars, framesRead, pipeVars, next_frame_id,
                   next_frame_id_to_show, results, delivered, interrupted, exhausted, quit>>

\* variant of Show that advances the cursor by two
ShowSkip ==
    /\ pc = "show"
    /\ \E key \in Keys :
          IF key = "quit"
          THEN /\ pc' = "await_all"
               /\ quit' = TRUE
               /\ UNCHANGED next_frame_id_to_show
          ELSE /\ pc' = "loop"
               /\ next_frame_id_to_show' = next_frame_id_to_show + 2
               /\ UNCHANGED quit
    /\ UNCHANGED <<cfgVars, framesRead, pipeVars, next_frame_id, results,
                   rotVars, delivered, interrupted, exhausted>>

\* lines 303-320: show the frame; a quit key leaves the loop, else advance
Show ==
    /\ pc = "show"
    /\ \E key \in Keys :
          IF key = "quit"
          THEN /\ pc' = "await_all"
               /\ quit' = TRUE
               /\ UNCHANGED next_frame_id_to_show
          ELSE /\ pc' = "loop"
               /\ next_frame_id_to_show' = next_frame_id_to_show + 1
               /\ UNCHANGED quit
    /\ UNCHANGED <<cfgVars, framesRead, pipeVars, next_frame_id, results,
                   rotVars, delivered, interrupted, exhausted>>

\* variant of SubmitGuard that submits without asking is_ready()
SubmitGuardAlways == TRUE

\* variant of SubmitGuard that submits exactly when no slot is idle
SubmitGuardInverted == ~is_ready

\* line 322: a frame is read and submitted only when a slot is idle
SubmitGuard == is_ready

\* variant of ReadAndSubmit that does not advance next_frame_id after submitting
ReadAndSubmitReuseId ==
    IF framesRead = numFrames
    THEN /\ pc' = "await_all"
         /\ exhausted' = TRUE
         /\ UNCHANGED <<framesRead, next_frame_id, inflight, event,
                        capacity_exceeded>>
    ELSE /\ framesRead' = framesRead + 1
         /\ submit_data(next_frame_id, framesRead)
         /\ UNCHANGED next_frame_id
         /\ pc' = IF capacity_exceeded' THEN "error" ELSE "loop"
         /\ UNCHANGED exhausted

\* lines 324-331: read a frame; end of stream leaves the loop, else the frame
\* is submitted under next_frame_id, which is then advanced
ReadAndSubmit ==
    IF framesRead = numFrames
    THEN /\ pc' = "await_all"
         /\ exhausted' = TRUE
         /\ UNCHANGED <<framesRead, next_frame_id, inflight, event,
                        capacity_exceeded>>
    ELSE /\ framesRead' = framesRead + 1
         /\ submit_data(next_frame_id, framesRead)
         /\ next_frame_id' = next_frame_id + 1
         /\ pc' = IF capacity_exceeded' THEN "error" ELSE "loop"
         /\ UNCHANGED exhausted

\* lines 322-335: read and submit a frame, or go to wait for a slot
Admit ==
    /\ pc = "admit"
    /\ IF SubmitGuard
       THEN ReadAndSubmit
       ELSE /\ pc' = "await_any"
            /\ UNCHANGED <<framesRead, next_frame_id, inflight, event,
                           capacity_exceeded, exhausted>>
    /\ UNCHANGED <<cfgVars, completed_request_results, callback_exceptions,
                   next_frame_id_to_show, results, rotVars, delivered,
                   interrupted, quit>>

\* line 335, await_any: returns once a slot is idle or a completion was signalled
AwaitAny ==
    /\ pc = "await_any"
    /\ is_ready \/ event
    /\ pc' = "loop"
    /\ UNCHANGED <<cfgVars, framesRead, pipeVars, next_frame_id,
                   next_frame_id_to_show, results, rotVars, delivered,
                   interrupted, exhausted, quit>>

\* lines 336-337: KeyboardInterrupt anywhere inside the try block
Interrupt ==
    /\ pc \in {"loop", "accept", "show", "admit", "await_any"}
    /\ pc' = "await_all"
    /\ interrupted' = TRUE
    /\ UNCHANGED <<cfgVars, framesRead, pipeVars, next_frame_id,
                   next_frame_id_to_show, results, rotVars, delivered,
                   exhausted, quit>>

\* variant of AwaitAll that does not wait for the busy slots
AwaitAllNoWait ==
    /\ pc = "await_all"
    /\ pc' = "drain"
    /\ UNCHANGED <<cfgVars, framesRead, pipeVars, next_frame_id,
                   next_frame_id_to_show, results, rotVars, delivered,
                   interrupted, exhausted, quit>>

\* line 339, await_all: returns when no slot is busy
AwaitAll ==
    /\ pc = "await_all"
    /\ DOMAIN inflight = {}
    /\ pc' = "drain"
    /\ UNCHANGED <<cfgVars, framesRead, pipeVars, next_frame_id,
                   next_frame_id_to_show, results, rotVars, delivered,
                   interrupted, exhausted, quit>>

\* lines 341-367: one iteration of the shutdown drain loop
Drain ==
    /\ pc = "drain"
    /\ IF has_completed_request
       THEN /\ get_result(next_frame_id_to_show)
            /\ IF results' # <<>>
               THEN /\ delivered' = Append(delivered, results'[1])
                    /\ \E key \in Keys :
                          IF key = "quit"
                          THEN /\ pc' = "flush"
                               /\ quit' = TRUE
                               /\ UNCHANGED next_frame_id_to_show
                          ELSE /\ pc' = "drain"
                               /\ next_frame_id_to_show' = next_frame_id_to_show + 1
                               /\ UNCHANGED quit
               ELSE /\ pc' = "flush"
                    /\ UNCHANGED <<delivered, next_frame_id_to_show, quit>>
       ELSE /\ pc' = "flush"
            /\ UNCHANGED <<results, completed_request_results, delivered,
                           next_frame_id_to_show, quit>>
    /\ UNCHANGED <<cfgVars, framesRead, inflight, callback_exceptions, event,
                   capacity_exceeded, next_frame_id, rotVars, interrupted, exhausted>>

\* variant of FinalFlush that skips the save on the KeyboardInterrupt path
FinalFlushUnlessInterrupted ==
    /\ pc = "flush"
    /\ saved' = IF record /\ ~interrupted
                THEN Append(saved, [dir |-> output_dir,
                                    name |-> output_file_name,
                                    records |-> record_list,
                                    final |-> TRUE])
                ELSE saved
    /\ pc' = "done"
    /\ UNCHANGED <<cfgVars, framesRead, pipeVars, next_frame_id,
                   next_frame_id_to_show, results, record_list, output_dir,
                   output_file_name, dt_pre, delivered, interrupted, exhausted, quit>>

\* lines 369-373: the final save of record_list, then normal exit
FinalFlush ==
    /\ pc = "flush"
    /\ saved' = IF record
                THEN Append(saved, [dir |-> output_dir,
                                    name |-> output_file_name,
                                    records |-> record_list,
                                    final |-> TRUE])
                ELSE saved
    /\ pc' = "done"
    /\ UNCHANGED <<cfgVars, framesRead, pipeVars, next_frame_id,
                   next_frame_id_to_show, results, record_list, output_dir,
                   output_file_name, dt_pre, delivered, interrupted, exhausted, quit>>

Completes == \E id \in DOMAIN inflight : Complete(id)
Fails == \E id \in DOMAIN inflight : Fail(id)

Next ==
    \/ LoopTop
    \/ Accept
    \/ Show
    \/ Admit
    \/ AwaitAny
    \/ Interrupt
    \/ AwaitAll
    \/ Drain
    \/ FinalFlush
    \/ Completes
    \/ Fails

Spec == Init /\ [][Next]_vars

\* ---- helpers of the properties ----
MainLoopPcs == {"loop", "accept", "show", "admit", "await_any"}

\* the ids 0 .. n-1 in order
RECURSIVE Iota(_)
Iota(n) == IF n = 0 THEN <<>> ELSE Append(Iota(n - 1), n - 1)

\* the records of the first n np.save calls, concatenated in flush order
RECURSIVE SavedRecords(_)
SavedRecords(n) == IF n = 0 THEN <<>> ELSE SavedRecords(n - 1) \o saved[n].records

IdsOf(recs) == [i \in 1..Len(recs) |-> recs[i].id]
StrictlyIncreasingTimes(recs) ==
    \A i \in 1..Len(recs) : \A j \in 1..Len(recs) : i < j => recs[i].t < recs[j].t
FinalSaves == {i \in 1..Len(saved) : saved[i].final}

\* C1: the ids the control loop is handed (main loop, then drain loop) are
\* 0, 1, 2, ... in this order without gap or repetition; the id handed out
\* last is the cursor (or the cursor was just advanced past it), and a result
\* still buffered is never one below the cursor, i.e. never one that has been
\* passed over by a delivery.
C1_OrderedDelivery ==
    /\ delivered = Iota(Len(delivered))
    /\ Len(delivered) \in {next_frame_id_to_show, next_frame_id_to_show + 1}
    /\ pc \in {"accept", "show"} =>
          /\ Len(delivered) = next_frame_id_to_show + 1
          /\ results # <<>> /\ results[1] = next_frame_id_to_show
    /\ \A k \in DOMAIN completed_request_results : k >= Len(delivered)

\* C1 witness: frame 0 has been delivered and frame 2, which completed before
\* frame 1, waits in the pending result set while frame 1 is still in flight.
C1_Witness ==
    /\ delivered = <<0>>
    /\ 2 \in DOMAIN completed_request_results
    /\ 1 \in DOMAIN inflight

\* C2: no loss.  When the process has exited normally in a run with no
\* inference failure and no quit key, every submitted frame 0 .. next_frame_id-1
\* has been delivered exactly once.
C2_NoLoss ==
    (pc = "done" /\ ~quit /\ callback_exceptions = {})
        => delivered = Iota(next_frame_id)

\* C3: capacity respected.  The frames in flight never outnumber the slots and
\* submit_data is never called when no slot is idle.
C3_CapacityRespected ==
    /\ Cardinality(DOMAIN inflight) <= pool_size
    /\ IdleSlots >= 0
    /\ ~capacity_exceeded

\* C3 witness: every slot is busy, frames remain in the source and the control
\* loop waits in await_any instead of submitting.
C3_Witness ==
    /\ pc = "await_any"
    /\ IdleSlots = 0
    /\ Cardinality(DOMAIN inflight) = pool_size
    /\ pool_size = MaxPool
    /\ framesRead < numFrames

\* C4: shutdown drains.  When the process has exited after a KeyboardInterrupt
\* in the main loop (no inference failure, no quit key), every submitted frame
\* has been delivered, in order.
C4_ShutdownDrains ==
    (pc = "done" /\ interrupted /\ ~quit /\ callback_exceptions = {})
        => delivered = Iota(next_frame_id)

\* C5: bucket partition.  With recording enabled and strictly increasing
\* timestamps, after normal exit the records of all saved files, concatenated
\* in flush order, are exactly the delivered results.
C5_BucketPartition ==
    (pc = "done" /\ record /\ StrictlyIncreasingTimes(SavedRecords(Len(saved))))
        => IdsOf(SavedRecords(Len(saved))) = delivered

\* C6: rotation on key change.  With recording enabled, whenever a result is
\* accepted whose half-hour bucket key differs from that of the previously
\* accepted result, that accept saves the records accumulated so far exactly
\* once and restarts record_list with the new result only.
C6_RotationOnKeyChange ==
    [][(pc = "accept" /\ pc' = "show" /\ record /\ next_frame_id_to_show > 0
          /\ BucketKey(dt_pre') # BucketKey(dt_pre))
        => (/\ Len(saved') = Len(saved) + 1
            /\ saved'[Len(saved')].records = record_list
            /\ Len(record_list') = 1)]_vars

\* C7: window containment and naming.  Every saved file is named by the date
\* directory and HHMM label of the bucket of each record it holds.
C7_WindowContainment ==
    \A i \in 1..Len(saved) : \A j \in 1..Len(saved[i].records) :
        BucketKey(saved[i].records[j].t) = <<saved[i].dir, saved[i].name>>

\* C8: the first accepted result never triggers a flush: as long as the main
\* loop has not advanced the cursor past frame 0, nothing has been saved.
C8_FirstResultNoFlush ==
    (pc \in MainLoopPcs /\ next_frame_id_to_show = 0) => saved = <<>>

\* C9: no empty archive units: every np.save call writes at least one record.
C9_NoEmptyUnits ==
    \A i \in 1..Len(saved) : saved[i].records # <<>>

\* C10: with recording enabled, every run that leaves the main loop by source
\* exhaustion, quit key or KeyboardInterrupt ends with exactly one final save,
\* made after the drain loop, of record_list under the current names.
C10_FinalFlushInv ==
    /\ FinalSaves # {} => pc = "done"
    /\ (pc = "done" /\ record) =>
          /\ FinalSaves = {Len(saved)}
          /\ saved[Len(saved)].records = record_list
          /\ saved[Len(saved)].dir = output_dir
          /\ saved[Len(saved)].name = output_file_name
C10_FinalFlushOnce ==
    /\ []C10_FinalFlushInv
    /\ (pc = "await_all" /\ record) ~> (pc = "done" /\ Cardinality(FinalSaves) = 1)

\* C10 witness: a cancelled run with recording enabled has exited; a rotation
\* save came first and the partial bucket was saved last.
C10_Witness ==
    /\ pc = "done" /\ record /\ interrupted
    /\ Len(saved) = 2
    /\ record_list # <<>>
    /\ saved[2].final /\ saved[2].records = record_list

\* C11: when an inference failure has been raised to the control thread, the
\* process ends with an error only after the drain and the flush: the result
\* for the cursor is not left in the pending result set, and with recording
\* enabled the accumulated records have been saved.
C11_ErrorAfterDrainAndFlush ==
    (pc = "error" /\ callback_exceptions # {}) =>
        /\ next_frame_id_to_show \notin DOMAIN completed_request_results
        /\ (record /\ record_list # <<>>) =>
              \E i \in 1..Len(saved) : saved[i].records = record_list

\* C12: an inference failure captured at any time before exit never vanishes:
\* the process does not exit normally while a failure is recorded.
C12_FailureSurfaced ==
    pc = "done" => callback_exceptions = {}

\* C13: once an inference failure has been recorded, no step of the control
\* loop submits a further frame.
C13_NoSubmitAfterFailure ==
    [][callback_exceptions # {} =>
          (next_frame_id' = next_frame_id /\ DOMAIN inflight' \subseteq DOMAIN inflight)]_vars

\* the completed results buffered for ids beyond the cursor
PendingAhead == {k \in DOMAIN completed_request_results : k > next_frame_id_to_show}

\* C14 (as claimed): the completed results buffered ahead of the cursor never
\* outnumber the slots.
C14_PendingBoundedByPool ==
    Cardinality(PendingAhead) <= pool_size

\* C14 (amended): the buffered results together with the frames in flight are
\* at most the frames submitted and not yet delivered; the slot count bounds
\* the results buffered ahead of the cursor only for a pool of one slot.
C14_PendingBoundedBySubmitted ==
    /\ Cardinality(DOMAIN completed_request_results) + Cardinality(DOMAIN inflight)
          <= next_frame_id - next_frame_id_to_show
    /\ pool_size = 1 => Cardinality(PendingAhead) <= pool_size

\* C14 witness: with two slots, frame 0 is still in flight while frames 1, 2
\* and 3 have completed and wait in the pending result set.
C14_Witness ==
    /\ pool_size = 2
    /\ next_frame_id_to_show = 0
    /\ 0 \in DOMAIN inflight
    /\ DOMAIN completed_request_results = {1, 2, 3}

\* bucket keys in chronological order: by date, then by window label
KeyBefore(k1, k2) == k1[1] < k2[1] \/ (k1[1] = k2[1] /\ k1[2] < k2[2])

\* C15: a backward clock jump triggers a rotation: accepting a result whose
\* bucket key is earlier than the key of the previously accepted result saves
\* the prior bucket.
C15_BackwardJumpRotates ==
    [][(pc = "accept" /\ pc' = "show" /\ next_frame_id_to_show > 0
          /\ KeyBefore(BucketKey(dt_pre'), BucketKey(dt_pre)))
        => (/\ Len(saved') = Len(saved) + 1
            /\ saved'[Len(saved')].records = record_list)]_vars

\* C16 (as claimed, read where no delivery is in progress and in runs without
\* KeyboardInterrupt): every buffered key is at or beyond the cursor, and the
\* cursor has advanced once for each delivery.
C16_CursorCountsDeliveries ==
    /\ \A k \in DOMAIN completed_request_results : k >= next_frame_id_to_show
    /\ (pc \notin {"accept", "show"} /\ ~interrupted)
          => next_frame_id_to_show = Len(delivered)

C16_CursorInv ==
    /\ \A k \in DOMAIN completed_request_results : k >= next_frame_id_to_show
    /\ Len(delivered) \in {next_frame_id_to_show, next_frame_id_to_show + 1}
    /\ Len(delivered) = next_frame_id_to_show + 1
          => (pc \in {"accept", "show"} \/ quit \/ interrupted)

\* C16 (amended): every buffered key is at or beyond the cursor; the cursor
\* never decreases and moves only by one, in the step that ends the delivery
\* of the id it pointed at; a delivery that a quit key or a KeyboardInterrupt
\* cuts short leaves the cursor on the id just delivered.
C16_CursorFollowsDeliveries ==
    /\ []C16_CursorInv
    /\ [][next_frame_id_to_show' # next_frame_id_to_show =>
            /\ next_frame_id_to_show' = next_frame_id_to_show + 1
            /\ Len(delivered') = next_frame_id_to_show'
            /\ delivered'[Len(delivered')] = next_frame_id_to_show]_vars

\* C16 witness: a quit key in the main loop has ended the delivery of the
\* cursor's frame, later results are buffered, and the cursor is still on it.
C16_Witness ==
    /\ pc = "await_all" /\ quit /\ ~interrupted
    /\ next_frame_id_to_show >= 1
    /\ Len(delivered) = next_frame_id_to_show + 1
    /\ DOMAIN completed_request_results # {}

C17_IdsInv ==
    /\ next_frame_id = framesRead
    /\ \A id \in DOMAIN inflight : id < next_frame_id /\ inflight[id] = id
    /\ \A id \in DOMAIN completed_request_results :
          id < next_frame_id /\ completed_request_results[id] = id
    /\ results # <<>> => (results[1] < next_frame_id /\ results[2] = results[1])

\* C17: the k-th submit_data call carries id k (k counted from 0, frame k of
\* the source), every submission takes the id next_frame_id, which was never
\* used, and advances it by one, and the metadata that comes back with the
\* result of id k is the metadata of frame k.
C17_DenseIds ==
    /\ []C17_IdsInv
    /\ [][DOMAIN inflight' \ DOMAIN inflight # {} =>
            /\ DOMAIN inflight' \ DOMAIN inflight = {next_frame_id}
            /\ next_frame_id \notin DOMAIN completed_request_results
            /\ next_frame_id >= Len(delivered)
            /\ inflight'[next_frame_id] = framesRead
            /\ next_frame_id' = next_frame_id + 1
            /\ framesRead' = framesRead + 1]_vars

\* C17 witness: frames 0, 1, 2 were submitted under ids 0, 1, 2 and the result
\* of id 2 has come back with the metadata of frame 2.
C17_Witness ==
    /\ delivered = <<0, 1, 2>>
    /\ results = <<2, 2>>
    /\ next_frame_id >= 3

C18_ExhaustedInv ==
    /\ exhausted => pc \in {"await_all", "drain", "flush", "done"}
    /\ (exhausted /\ pc \in {"drain", "flush", "done"}) => DOMAIN inflight = {}
    /\ (exhausted /\ pc = "done" /\ ~quit /\ callback_exceptions = {})
          => delivered = Iota(next_frame_id)

C19_PriorityInv ==
    /\ pc \in {"admit", "await_any"} => results = <<>>
    /\ pc = "await_any" => (DOMAIN inflight # {} \/ event \/ is_ready)

\* C19: a frame is read and submitted only in an iteration whose poll found
\* the cursor's result not ready, and only when a slot is idle; await_any is
\* entered only after such a poll when no slot was idle; and while the loop is
\* in await_any a frame is in flight or a completion has been signalled since.
C19_DeliveryBeforeAdmission ==
    /\ []C19_PriorityInv
    /\ [][(next_frame_id' # next_frame_id \/ framesRead' # framesRead
              \/ DOMAIN inflight' \ DOMAIN inflight # {} \/ capacity_exceeded')
            => (pc = "admit" /\ results = <<>> /\ is_ready)]_vars
    /\ [][(pc' = "await_any" /\ pc # "await_any")
            => (pc = "admit" /\ results = <<>> /\ ~is_ready)]_vars

\* C19 witness: the loop has gone to await_any with every slot busy, and the
\* frames have completed since, so await_any returns at once.
C19_Witness ==
    /\ pc = "await_any"
    /\ pool_size = 2
    /\ DOMAIN inflight = {}
    /\ callback_exceptions = {}
    /\ event

ExactlyOne(a, b, c) == (a \/ b \/ c) /\ ~(a /\ b) /\ ~(a /\ c) /\ ~(b /\ c)
DeliveredIds == {delivered[i] : i \in 1..Len(delivered)}

\* C20 (as claimed, read where no delivery is in progress): without inference
\* failure and without cancellation every id below next_frame_id is in exactly
\* one of: in flight, buffered, below the cursor.
C20_ConservationByCursor ==
    (callback_exceptions = {} /\ ~interrupted /\ pc \notin {"accept", "show"}) =>
        \A id \in 0..(next_frame_id - 1) :
            ExactlyOne(id \in DOMAIN inflight,
                       id \in DOMAIN completed_request_results,
                       id < next_frame_id_to_show)

\* C20 (amended): without inference failure and without cancellation every id
\* below next_frame_id is in exactly one of: in flight, buffered, handed out
\* by get_result; the ids handed out are those below the cursor and, during a
\* delivery or after a quit key ended it, the cursor's id itself; the cursor
\* is at most next_frame_id and in flight + buffered + handed out = submitted.
C20_Conservation ==
    (callback_exceptions = {} /\ ~interrupted) =>
        /\ \A id \in 0..(next_frame_id - 1) :
              ExactlyOne(id \in DOMAIN inflight,
                         id \in DOMAIN completed_request_results,
                         id \in DeliveredIds)
        /\ (DOMAIN inflight \cup DOMAIN completed_request_results \cup DeliveredIds)
              \subseteq 0..(next_frame_id - 1)
        /\ \A id \in DeliveredIds : id <= next_frame_id_to_show
        /\ \A id \in 0..(next_frame_id_to_show - 1) : id \in DeliveredIds
        /\ next_frame_id_to_show \in DeliveredIds
              => (pc \in {"accept", "show"} \/ quit)
        /\ next_frame_id_to_show <= next_frame_id
        /\ Cardinality(DOMAIN inflight) + Cardinality(DOMAIN completed_request_results)
              + Len(delivered) = next_frame_id

\* C20 witness: a run without failure or cancellation has exited after a quit
\* key in the main loop: the cursor's id was handed out, is not below the
\* cursor, and later results are still buffered.
C20_Witness ==
    /\ pc = "done" /\ quit /\ ~interrupted /\ callback_exceptions = {}
    /\ next_frame_id_to_show \in DeliveredIds
    /\ DOMAIN completed_request_results # {}

\* a KeyboardInterrupt came between a get_result and its cursor increment
InterruptSplit == interrupted /\ Len(delivered) = next_frame_id_to_show + 1

\* C21 (as claimed): after await_all, without inference failure and without an
\* interrupt between a get_result and its cursor increment, whenever the drain
\* loop finds a completed request the result of the cursor id is present, so
\* its else/break branch is not taken.
C21_DrainNeverBreaks ==
    (pc = "drain" /\ callback_exceptions = {} /\ ~InterruptSplit
        /\ has_completed_request)
        => next_frame_id_to_show \in DOMAIN completed_request_results

\* C21 (amended): the same for runs in which, in addition, no quit key ended
\* the main loop; in such runs the drain loop ends, unless a quit key is
\* pressed in it, only when the pending result set is empty.
C21_DrainCompleteness ==
    (callback_exceptions = {} /\ ~InterruptSplit /\ ~quit) =>
        /\ (pc = "drain" /\ has_completed_request)
              => next_frame_id_to_show \in DOMAIN completed_request_results
        /\ pc \in {"flush", "done"} => ~has_completed_request

\* C21 witness: after a KeyboardInterrupt at the top of an iteration and
\* await_all, the drain loop has delivered a result and still finds two
\* buffered ones, the cursor's among them.
C21_Witness ==
    /\ pc = "drain" /\ interrupted /\ ~InterruptSplit /\ ~quit
    /\ callback_exceptions = {}
    /\ next_frame_id_to_show >= 1
    /\ Cardinality(DOMAIN completed_request_results) >= 2
    /\ next_frame_id_to_show \in DOMAIN completed_request_results

\* the control thread keeps running and every inference ends (successfully
\* or not), so no enabled step is postponed forever
FairSpec == Init /\ [][Next]_vars /\ WF_vars(Next)

====
